---------------------------- MODULE Spec2Model ----------------------------
(***************************************************************************)
(* The worker supervisor of app/bots/child/runner.py (manager_loop,        *)
(* stop_task, _child_entry, _owner_is_member), the tail of run_child_bot   *)
(* in app/bots/child/bot_instance.py that a worker task executes, and the  *)
(* writers of Tenant.status in the parent bot (ga.py, onboarding.py),      *)
(* which run in another process against the same SQLite file.              *)
(*                                                                         *)
(* One asyncio event loop runs manager_loop and the worker tasks: a step   *)
(* of the model is what one coroutine does between two suspension points   *)
(* (await).  The parent bot is a separate process, so its commits may fall *)
(* between any two statements of manager_loop.                             *)
(***************************************************************************)
EXTENDS Integers, FiniteSets, Bags, TLC

\* ------------------------------------------------------------------ bounds
NumTenants == 2

\* Requests to /pb are taken while the ledger has fewer rows than this.
MaxPostbacks == 3

\* Premium-bot messages to one user are counted up to this.
MaxVipSent == 2

Tenants == 1..NumTenants

\* ------------------------------------------------------------ program data
\* models.TenantStatus, plus "absent" for an id without a row in tenants.
TenantStatus == {"active", "paused", "deleted"}
RowStates == TenantStatus \cup {"absent"}

\* What parent_bot.get_chat_member gives for the owner: a ChatMember whose
\* status is one of these, or an exception ("error").
LookupResults == {"member", "left", "kicked", "error"}

VARIABLES
    status,      \* tenants table: id -> Tenant.status, or "absent"
    mgr_pc,      \* where manager_loop is suspended / what it does next
    to_check,    \* tenants of the first `active` list not yet checked (line 88)
    dirty,       \* tenants of this tick whose check failed: t.status = paused
    lookup,      \* what the last get_chat_member of this tick gave, or "none"
    active_ids,  \* line 99
    to_stop,     \* ids of list(tasks.keys()) not yet visited (line 102)
    procs,       \* the event loop's worker tasks (asyncio.Task of _child_entry)
    secret_mode, \* settings.tenant_secret_mode
    postback_secret, \* tenants table: id -> Tenant.postback_secret
    cfg,         \* tenant_configs table: tenant id -> row, or NoCfg
    users,       \* users table: set of rows
    postbacks,   \* postbacks table (the ledger): bag of rows
    asked,       \* the tenant_id and t parameters of the last request to /pb
    last,        \* what the last request to /pb answered and sent
    vip_sent,    \* the "premium bot" messages sent: bag of users.id
    pending,     \* on_get invocations between their query and their commit
    inflight,    \* requests to /pb that are sending their screen
    starting     \* on_start invocations between their query and their insert

\* The tables and settings of the ingestion endpoint and of the worker's
\* handlers.
opVars == <<vip_sent, pending, inflight, starting>>

pbVars == <<secret_mode, postback_secret, cfg, users, postbacks, asked, last,
            opVars>>

vars == <<status, mgr_pc, to_check, dirty, lookup, active_ids, to_stop, procs,
          pbVars>>

\* A worker task.  ref: how manager_loop holds it ("dict": a value of the
\* tasks dict, "await": the local `task` of stop_task, "none": unreferenced).
\* pos: where _child_entry is suspended:
\*   "created"  create_task was called, the coroutine has not run yet
\*   "polling"  inside the try of run_child_bot (delete_webhook/start_polling)
\*   "backoff"  await asyncio.sleep(5) of _child_entry
\*   "done"     the task is finished
\* The finally of run_child_bot (await bot.session.close()) is taken in one
\* step with what follows it up to the sleep: a cancellation that arrives
\* there finishes the task exactly as one that arrives in the sleep does.
\* cancelled: task.cancel() was called on the task.
\* runs: whether this task has called run_child_bot never ("none"), once
\* ("once") or again after that ("again"); the code keeps no such record.
Positions == {"created", "polling", "backoff", "done"}

NewTask(tid) ==
    [tid |-> tid, ref |-> "dict", pos |-> "created", cancelled |-> FALSE,
     runs |-> "none"]

\* The tasks dict of manager_loop: its values and its keys.
tasks == {p \in procs : p.ref = "dict"}

TaskKeys == {p.tid : p \in tasks}

IsDone(p) == p.pos = "done"

\* The worker loops alive for tenant tid.
AliveOf(tid) == {p \in procs : p.tid = tid /\ ~IsDone(p)}

Running == {tid \in Tenants : AliveOf(tid) # {}}

Min(S) == CHOOSE x \in S : \A y \in S : x <= y

\* ------------------------------------------- ingestion endpoint: the data
\* SQL NULL / Python None in a string column or a query parameter.
NULL == "<null>"

\* User.tg_user_id of a row without one (nullable column; `user.tg_user_id`
\* is falsy for it, postback.py line 162).
NoTg == 0

\* Telegram ids of the end users that talk to the worker.
TgIds == {7}

\* click_id values the sender passes (the Telegram id, as the links of the
\* worker give it), with str.isdigit() and int() of them.
ClickIds == {"7"}
IsDigit(c) == c = "7"
ToInt(c) == IF c = "7" THEN 7 ELSE NoTg

\* str(click_id) of line 130: str(None) is the four letters "None".
StrClick(c) == IF c = NULL THEN "None" ELSE c

\* str(user.tg_user_id) of line 192 and of get_deposit_total.
StrTg(n) == IF n = 7 THEN "7" ELSE "None"

TraderIds == {"T"}

\* The `event` query parameter as sent, and norm_event (lines 18-24):
\* lower-cased, synonyms folded, anything else left as it is.
RawEvents == {"reg", "Deposit"}
Lower(r) == IF r = "Deposit" THEN "deposit" ELSE r
norm_event(raw) ==
    LET r == IF raw = NULL THEN "" ELSE Lower(raw)
    IN  IF r \in {"reg", "registration", "signup", "sign_up"}
        THEN "registration"
        ELSE IF r \in {"dep", "deposit", "payment"} THEN "deposit" ELSE r

\* The `sum` query parameter as sent, and lines 39-43: int(float(sum_str)),
\* truncated toward zero, 0 when missing; float() reads a leading minus
\* sign, and nothing looks at the sign afterwards.
RawSums == {"60.9", "100"}
SumVal(sum_str) ==
    IF sum_str = NULL THEN 0
    ELSE IF sum_str = "60.9" THEN 60
    ELSE IF sum_str = "500" THEN 500
    ELSE IF sum_str = "-60.9" THEN 0 - 60 ELSE 100

\* The `t` query parameter: the tenant's own secret, the global one.
Tokens == {"s", "g"}
global_postback_secret == "g"

\* models.UserStep, in the order of the funnel.
UserStep == <<"new", "asked_reg", "registered", "asked_deposit", "deposited">>
Steps == {UserStep[i] : i \in DOMAIN UserStep}

\* tenant_configs: no row, or (require_deposit, min_deposit).
NoCfg == [require_deposit |-> TRUE, min_deposit |-> 0, exists |-> FALSE]
DefaultMinDeposit == 50
Cfg(rd, md) == [require_deposit |-> rd, min_deposit |-> md, exists |-> TRUE]

\* lines 81-84 and get_cfg (bot_instance.py 114-134): the row, created with
\* the defaults when the tenant has none.
DefaultCfg == Cfg(TRUE, DefaultMinDeposit)

\* The config rows a tenant starts with: none, a raised threshold, no
\* deposit required.
InitCfgs == {NoCfg, Cfg(TRUE, 100), Cfg(FALSE, DefaultMinDeposit)}
CfgOrDefault(c) == IF c.exists THEN c ELSE DefaultCfg

\* A row of postbacks.  raw_query, created_at and the autoincrement id are
\* left out.  uid is not a column: it records users.id of the user the
\* handler resolved or created for the event (0: none).
Postback(tenant_id, event, click_id, trader_id, sum, token_ok, uid) ==
    [tenant_id |-> tenant_id, event |-> event, click_id |-> click_id,
     trader_id |-> trader_id, sum |-> sum, token_ok |-> token_ok, uid |-> uid]

\* A row of users (lang, last_message_id and the timestamps left out).
User(id, tenant_id, tg_user_id, click_id, trader_id, step) ==
    [id |-> id, tenant_id |-> tenant_id, tg_user_id |-> tg_user_id,
     click_id |-> click_id, trader_id |-> trader_id, step |-> step]

\* The primary key SQLite gives the next row of users: max(id) + 1.
NextUserId ==
    IF users = {} THEN 1
    ELSE (CHOOSE i \in {u.id : u \in users} : \A u \in users : u.id <= i) + 1

\* What /pb answered last: the HTTP outcome, the "dup" mark, and the screen
\* the handler tried to send (lines 187-241) and to which Telegram id.
Response(code, dup, screen, to) ==
    [code |-> code, dup |-> dup, screen |-> screen, to |-> to]
NoResponse == Response("none", FALSE, "none", NoTg)

\* The tenant_id and t of a request, as the handler reads them (lines 34, 36).
Request(tenant_id, token) == [tenant_id |-> tenant_id, token |-> token]
NoRequest == Request(0, NULL)

RECURSIVE SumOf(_, _)
\* func.coalesce(func.sum(Postback.sum), 0) over the distinct rows `rows`
\* of the table B, each with its copies.
SumOf(rows, B) ==
    IF rows = {} THEN 0
    ELSE LET r == CHOOSE x \in rows : TRUE
         IN  r.sum * CopiesIn(r, B) + SumOf(rows \ {r}, B)

\* onboarding.py 89-90 and models.py 35: the secret of a new tenant is
\* token_urlsafe(24) when per-tenant secrets are enabled, else the column
\* default "".
OnboardSecret(mode) == IF mode = "enabled" THEN "s" ELSE ""

\* -------------------------------------------------------------------- Init
\* manager_loop starts with an empty tasks dict against whatever tenants
\* the table holds; their rows were made by onboarding under the secret
\* mode of the settings (the entry of an id without a row is not read).
Init ==
    /\ status \in [Tenants -> RowStates]
    /\ mgr_pc = "query"
    /\ to_check = {}
    /\ dirty = {}
    /\ lookup = "none"
    /\ active_ids = {}
    /\ to_stop = {}
    /\ procs = {}
    /\ secret_mode = "enabled"
    /\ postback_secret = [t \in Tenants |-> OnboardSecret(secret_mode)]
    /\ cfg = [t \in Tenants |-> NoCfg]
    /\ users = {}
    /\ postbacks = EmptyBag
    /\ asked = NoRequest
    /\ last = NoResponse
    /\ vip_sent = EmptyBag
    /\ pending = {}
    /\ inflight = {}
    /\ starting = {}


\* ------------------------------------------------- worker task (coroutine)
\* run_child_bot is invoked (line 37).
Invoked(p) == [p EXCEPT !.runs = IF p.runs = "none" THEN "once" ELSE "again"]

\* Mutant of ChildEntryAfterRun: no `except Exception`, the exception of
\* run_child_bot ends the task.
ChildEntryAfterRunRaises(p) == [p EXCEPT !.pos = "done"]

\* _child_entry once run_child_bot has returned (line 38) or raised an
\* Exception (lines 42-43): it falls through to await asyncio.sleep(5).
ChildEntryAfterRun(p) == [p EXCEPT !.pos = "backoff"]

\* What run_child_bot does with a CancelledError thrown into its try
\* (bot_instance.py 1891-1896): `except asyncio.CancelledError: pass`, the
\* finally closes the session and the function returns normally, so
\* _child_entry goes on as after any return.
RunChildBotCancelled(p) == ChildEntryAfterRun(p)

\* task.cancel(): CancelledError is thrown into the coroutine where it is
\* suspended.  In asyncio.sleep(5) (line 44) nothing catches it and a task
\* that has not run yet is cancelled without running: the task finishes.
Cancel(p) ==
    IF p.pos = "polling"
    THEN [RunChildBotCancelled(p) EXCEPT !.cancelled = TRUE]
    ELSE [p EXCEPT !.cancelled = TRUE, !.pos = "done"]

Replace(p, q) == (procs \ {p}) \cup {q}

MgrVars == <<mgr_pc, to_check, dirty, lookup, active_ids, to_stop>>

\* Mutant of ChildEntryLoop: no `while True`, the task returns after the
\* sleep.
ChildEntryNoLoop(p) == [p EXCEPT !.pos = "done"]

\* _child_entry when the task first runs or asyncio.sleep(5) is over: the
\* while True (line 35) calls run_child_bot, which reaches start_polling.
ChildEntryLoop(p) == [Invoked(p) EXCEPT !.pos = "polling"]

\* The event loop runs a created task, or asyncio.sleep(5) elapses.
WorkerInvoke(tid) ==
    \E p \in AliveOf(tid) :
        /\ p.pos \in {"created", "backoff"}
        /\ procs' = Replace(p, ChildEntryLoop(p))
        /\ UNCHANGED <<pbVars, status, MgrVars>>

\* As WorkerInvoke, but run_child_bot raises before its try (Bot(token=...)
\* rejects the token, line 609): except Exception of _child_entry.
WorkerSetupCrash(tid) ==
    \E p \in AliveOf(tid) :
        /\ p.pos \in {"created", "backoff"}
        /\ procs' = Replace(p, ChildEntryAfterRun(Invoked(p)))
        /\ UNCHANGED <<pbVars, status, MgrVars>>

\* dp.start_polling returns or raises an Exception (network, unauthorized
\* token, ...); the finally closes the session; _child_entry prints
\* "RETURNED" or "crashed" and sleeps.
PollingEnds(tid) ==
    \E p \in AliveOf(tid) :
        /\ p.pos = "polling"
        /\ procs' = Replace(p, ChildEntryAfterRun(p))
        /\ UNCHANGED <<pbVars, status, MgrVars>>

\* --------------------------------------------------------- manager_loop
\* Mutant of OwnerIsMember: an error of the lookup counts as membership.
OwnerIsMemberFailOpen(res) ==
    IF res = "error" THEN TRUE ELSE res \notin {"left", "kicked"}

\* _owner_is_member on what get_chat_member gave (lines 25-29).
OwnerIsMember(res) ==
    IF res = "error" THEN FALSE ELSE res \notin {"left", "kicked"}

\* Mutant of ShouldStop: the test of line 103 inverted.
ShouldStopInverted(tid, ids) == tid \in ids

\* line 103
ShouldStop(tid, ids) == tid \notin ids

\* line 108
ShouldStart(tid) == tid \notin TaskKeys

\* Mutant of AwaitReturns: stop_task cancels and does not wait.
AwaitReturnsAtOnce(p) == TRUE

\* line 56: `await task` resumes once the task is finished.
AwaitReturns(p) == IsDone(p)

ActiveNow == {t \in Tenants : status[t] = "active"}

\* main (117-121): an exception leaves manager_loop, asyncio.run cancels
\* every task still pending and the tasks dict is gone with the frame.
Terminate ==
    /\ mgr_pc' = "terminated"
    /\ procs' = {[q EXCEPT !.ref = "none"] :
                    q \in {r \in {Cancel(p) : p \in procs} : ~IsDone(r)}}
    /\ to_check' = {}
    /\ dirty' = {}
    /\ lookup' = "none"
    /\ to_stop' = {}
    /\ active_ids' = {}
    /\ UNCHANGED <<pbVars, status>>

\* line 114 is over (or manager_loop begins) and the loop body runs to its
\* first await; lines 84-87: a new session, the first query of the active
\* tenants.  active_ids is not read before line 99 assigns it again.
MgrQuery ==
    /\ mgr_pc \in {"query", "sleep"}
    /\ to_check' = ActiveNow
    /\ dirty' = {}
    /\ lookup' = "none"
    /\ active_ids' = {}
    /\ mgr_pc' = IF ActiveNow = {} THEN "commit" ELSE "check"
    /\ UNCHANGED <<pbVars, status, to_stop, procs>>

\* lines 88-94, one iteration: the await of _owner_is_member and the
\* pending t.status = paused.
MgrCheck ==
    /\ mgr_pc = "check"
    /\ to_check # {}
    /\ LET t == Min(to_check) IN
       \E res \in LookupResults :
          /\ lookup' = res
          /\ dirty' = IF OwnerIsMember(res) THEN dirty ELSE dirty \cup {t}
          /\ to_check' = to_check \ {t}
          /\ mgr_pc' = IF to_check = {t} THEN "commit" ELSE "check"
    /\ UNCHANGED <<pbVars, status, active_ids, to_stop, procs>>

\* Mutant of Flush: line 95 left out, nothing is written before line 98.
FlushNothing(st, d) == st

\* db.commit() (line 95) on the table st: the flush writes status = paused
\* for every object assigned at line 94.  (The session is autoflush=False:
\* nothing is written before this call.)
Flush(st, d) == [t \in Tenants |-> IF t \in d THEN "paused" ELSE st[t]]

\* line 95
MgrCommit ==
    /\ mgr_pc = "commit"
    /\ \A t \in dirty : status[t] # "absent"
    /\ status' = Flush(status, dirty)
    /\ mgr_pc' = "requery"
    /\ UNCHANGED <<pbVars, to_check, dirty, lookup, active_ids, to_stop, procs>>

\* line 95 when the row of a dirty object was deleted meanwhile: the UPDATE
\* matches no row, the flush raises StaleDataError, nothing is written.
MgrCommitStale ==
    /\ mgr_pc = "commit"
    /\ \E t \in dirty : status[t] = "absent"
    /\ Terminate

\* lines 87, 95, 98: the statement raises (the SQLite file is shared with
\* the parent bot and the HTTP service: "database is locked", I/O errors).
\* Only try/finally surrounds the tick, so the error leaves manager_loop.
MgrDbError ==
    /\ mgr_pc \in {"query", "sleep", "commit", "requery"}
    /\ Terminate

\* lines 98-102: the second query, active_ids and list(tasks.keys()).  Of
\* the keys, to_stop keeps those the loop of 102-104 will stop: tasks and
\* active_ids change during that loop only by its own pops.  `ok` and the
\* objects of the first query are not read after lines 93-95.
MgrRequery ==
    /\ mgr_pc = "requery"
    /\ active_ids' = ActiveNow
    /\ to_stop' = {tid \in TaskKeys : ShouldStop(tid, ActiveNow)}
    /\ dirty' = {}
    /\ lookup' = "none"
    /\ mgr_pc' = "stop"
    /\ UNCHANGED <<pbVars, status, to_check, procs>>

\* line 104 with stop_task up to its await (51-56): the task is popped
\* and, unless done, cancelled and awaited.
MgrStop ==
    /\ mgr_pc = "stop"
    /\ to_stop # {}
    /\ LET tid == Min(to_stop) IN
       /\ to_stop' = to_stop \ {tid}
       /\ \E p \in tasks :
            /\ p.tid = tid
            /\ IF ~IsDone(p)
               THEN /\ procs' = Replace(p, [Cancel(p) EXCEPT !.ref = "await"])
                    /\ mgr_pc' = "await"
               ELSE /\ procs' = procs \ {p}
                    /\ mgr_pc' = "stop"
    /\ UNCHANGED <<pbVars, status, to_check, dirty, lookup, active_ids>>

\* lines 56-58: await task is over; the local reference is dropped.
MgrAwait ==
    /\ mgr_pc = "await"
    /\ \E p \in procs :
         /\ p.ref = "await"
         /\ AwaitReturns(p)
         /\ procs' = IF IsDone(p) THEN procs \ {p}
                     ELSE Replace(p, [p EXCEPT !.ref = "none"])
    /\ mgr_pc' = "stop"
    /\ UNCHANGED <<pbVars, status, to_check, dirty, lookup, active_ids, to_stop>>

\* lines 106-114: every tenant of the second active list gets a task unless
\* the dict has one (tasks[t.id] = task would replace an entry), db.close(),
\* and the tick ends in await asyncio.sleep(CHECK_INTERVAL_SEC).
MgrStart ==
    /\ mgr_pc = "stop"
    /\ to_stop = {}
    /\ LET started == {t \in active_ids : ShouldStart(t)} IN
       procs' = {IF p.ref = "dict" /\ p.tid \in started
                 THEN [p EXCEPT !.ref = "none"] ELSE p : p \in procs}
                \cup {NewTask(t) : t \in started}
    /\ mgr_pc' = "sleep"
    /\ UNCHANGED <<pbVars, status, to_check, dirty, lookup, active_ids, to_stop>>

ManagerStep ==
    \/ MgrQuery
    \/ MgrCheck
    \/ MgrCommit
    \/ MgrRequery
    \/ MgrStop
    \/ MgrAwait
    \/ MgrStart

\* ------------------------------------ the parent bot (another process)
EnvVars == <<MgrVars, procs, pbVars>>

\* ga_toggle (ga.py 160-176)
GaToggle(t) ==
    /\ status[t] # "absent"
    /\ status' = [status EXCEPT ![t] = IF status[t] = "active" THEN "paused"
                                       ELSE "active"]
    /\ UNCHANGED EnvVars

\* Query.delete of the rows of tenant t in postbacks, users and
\* tenant_configs (ga.py 280-283, 413-416, 488-491); tenant_texts is not in
\* the model.
DeleteTenantRows(t) ==
    /\ postbacks' = [r \in {x \in BagToSet(postbacks) : x.tenant_id # t}
                       |-> postbacks[r]]
    /\ users' = {u \in users : u.tenant_id # t}
    /\ cfg' = [cfg EXCEPT ![t] = NoCfg]

\* The tables the parent bot's handlers leave alone.
GaFrame == <<MgrVars, procs, secret_mode, postback_secret, asked, last, opVars>>

\* ga_delc (ga.py 262-306): the tenant's rows and then the tenant are
\* deleted; or a statement raises, before the commit of line 284 (nothing
\* is deleted) or at lines 287-288 (the rows are gone, the tenant is not),
\* and the tenant is marked deleted.  (Its first commit, active -> paused,
\* gives a state GaToggle gives as well.)
GaDelc(t) ==
    /\ status[t] # "absent"
    /\ \/ status' = [status EXCEPT ![t] = "absent"] /\ DeleteTenantRows(t)
       \/ status' = [status EXCEPT ![t] = "deleted"] /\ DeleteTenantRows(t)
       \/ /\ status' = [status EXCEPT ![t] = "deleted"]
          /\ UNCHANGED <<cfg, users, postbacks>>
    /\ UNCHANGED GaFrame

\* ga_purge_deleted_run (ga.py 475-501), one tenant of its loop.
GaPurgeDeleted(t) ==
    /\ status[t] = "deleted"
    /\ status' = [status EXCEPT ![t] = "absent"]
    /\ DeleteTenantRows(t)
    /\ UNCHANGED GaFrame

\* ga_clean, run_hard (ga.py 403-426): the tenant's rows are deleted and
\* its URL fields emptied; the tenant stays, with the status it had.
GaCleanHard(t) ==
    /\ status[t] # "absent"
    /\ DeleteTenantRows(t)
    /\ UNCHANGED <<status, GaFrame>>

\* scripts/cleanup_postbacks.py (16-29): the rows of a tenant and click_id,
\* of one event or of both, are deleted from the ledger.
CleanupPostbacks(tenant, click_id, events) ==
    /\ postbacks' =
          [r \in {x \in BagToSet(postbacks) :
                     ~(/\ x.tenant_id = tenant
                       /\ x.click_id = click_id
                       /\ events # "both" => x.event = events)}
             |-> postbacks[r]]
    /\ UNCHANGED <<status, cfg, users, GaFrame>>

\* onboarding (onboarding.py 84-93): a new tenant row, active.  tenants.id
\* is an INTEGER PRIMARY KEY without AUTOINCREMENT: SQLite gives the
\* largest id in the table plus one, so the id of a deleted last row is
\* given again.
Onboard(t) ==
    /\ \A u \in Tenants : u >= t => status[u] = "absent"
    /\ \A u \in Tenants : u < t => status[u] # "absent"
    /\ status' = [status EXCEPT ![t] = "active"]
    /\ postback_secret' =
          [postback_secret EXCEPT ![t] = OnboardSecret(secret_mode)]
    /\ UNCHANGED <<MgrVars, procs, secret_mode, cfg, users, postbacks, asked,
                   last, opVars>>

Next ==
    \/ ManagerStep
    \/ MgrCommitStale
    \/ MgrDbError
    \/ \E t \in Tenants : WorkerInvoke(t)
    \/ \E t \in Tenants : WorkerSetupCrash(t)
    \/ \E t \in Tenants : PollingEnds(t)
    \/ \E t \in Tenants : GaToggle(t)
    \/ \E t \in Tenants : GaDelc(t)
    \/ \E t \in Tenants : GaPurgeDeleted(t)
    \/ \E t \in Tenants : Onboard(t)

Spec == Init /\ [][Next]_vars

\* The event loop runs every ready coroutine: manager_loop's next statement
\* and each worker's pending step are eventually taken.  Nothing obliges
\* polling to end or run_child_bot to fail, a database statement to fail or the operator to act.
FairSpec ==
    /\ Spec
    /\ WF_vars(ManagerStep)
    /\ \A t \in Tenants : WF_vars(WorkerInvoke(t))


\* ------------------------------------- ingestion endpoint: handle_postback
SupVars == <<status, MgrVars, procs>>

\* line 47: db.query(Tenant).filter(Tenant.id == tenant_id).first()
TenantExists(tenant_id) == tenant_id \in Tenants /\ status[tenant_id] # "absent"

\* Mutant of TokenOk: either secret is accepted, whatever the mode.
TokenOkEither(tenant_id, token) ==
    \/ postback_secret[tenant_id] # "" /\ token = postback_secret[tenant_id]
    \/ token = global_postback_secret

\* lines 52-58
TokenOk(tenant_id, token) ==
    IF secret_mode = "enabled"
    THEN postback_secret[tenant_id] # "" /\ token = postback_secret[tenant_id]
    ELSE token = global_postback_secret

\* Mutant of Existing: no deduplication.
ExistingNever(tenant_id, event, click_id, sum_val) == FALSE

\* lines 66-73: a verified row with the same tenant, event, click_id and sum.
Existing(tenant_id, event, click_id, sum_val) ==
    \E r \in BagToSet(postbacks) :
        /\ r.tenant_id = tenant_id
        /\ r.event = event
        /\ r.click_id = click_id
        /\ r.sum = sum_val
        /\ r.token_ok

\* Mutant of DepositRows: rows with token_ok = False are summed as well.
DepositRowsUnverified(B, tenant_id, click) ==
    {r \in BagToSet(B) :
        r.tenant_id = tenant_id /\ r.event = "deposit" /\ r.click_id = click}

\* The rows summed by lines 127-132, by lines 189-194 and by
\* get_deposit_total: the tenant's verified deposits whose click_id is the
\* string `click`.
DepositRows(B, tenant_id, click) ==
    {r \in BagToSet(B) :
        /\ r.tenant_id = tenant_id
        /\ r.event = "deposit"
        /\ r.click_id = click
        /\ r.token_ok}

\* Mutant of dep_total: the sum is taken over the table as it was before
\* the request's own row was committed.
dep_totalStale(B, tenant_id, click) ==
    SumOf(DepositRows(postbacks, tenant_id, click), postbacks)

dep_total(B, tenant_id, click) == SumOf(DepositRows(B, tenant_id, click), B)

\* `user = None` of line 87.
NoUser == User(0, 0, NoTg, NULL, NULL, "new")

\* Mutant of FoundUsers: the look-up has no tenant filter.
FoundUsersAnyTenant(tenant_id, click_id, trader_id) ==
    LET byTg == IF click_id # NULL /\ IsDigit(click_id)
                THEN {u \in users : u.tg_user_id = ToInt(click_id)} ELSE {}
        byClick == IF click_id # NULL
                   THEN {u \in users : u.click_id = click_id} ELSE {}
        byTrader == IF trader_id # NULL
                    THEN {u \in users : u.trader_id = trader_id} ELSE {}
    IN  IF byTg # {} THEN byTg ELSE IF byClick # {} THEN byClick ELSE byTrader

\* lines 87-93: the rows among which .first() picks the user; the empty set
\* when the user is None.
FoundUsers(tenant_id, click_id, trader_id) ==
    LET mine == {u \in users : u.tenant_id = tenant_id}
        byTg == IF click_id # NULL /\ IsDigit(click_id)
                THEN {u \in mine : u.tg_user_id = ToInt(click_id)} ELSE {}
        byClick == IF click_id # NULL
                   THEN {u \in mine : u.click_id = click_id} ELSE {}
        byTrader == IF trader_id # NULL
                    THEN {u \in mine : u.trader_id = trader_id} ELSE {}
    IN  IF byTg # {} THEN byTg ELSE IF byClick # {} THEN byClick ELSE byTrader

\* lines 99-106 and 135-142: the row of a user created by the handler.
NewUser(tenant_id, click_id, trader_id, step) ==
    User(NextUserId, tenant_id,
         IF click_id # NULL /\ IsDigit(click_id) THEN ToInt(click_id) ELSE NoTg,
         click_id, trader_id, step)

\* lines 112-113 and 155-156
Touch(u, click_id, trader_id, step) ==
    [u EXCEPT !.step = step,
              !.click_id = IF click_id # NULL THEN click_id ELSE @,
              !.trader_id = IF trader_id # NULL THEN trader_id ELSE @]

\* lines 119-122: without require_deposit a registration that notifies
\* opens the access at once.
OpenIfNoDeposit(u, c) ==
    IF ~c.require_deposit /\ u.step # "deposited"
    THEN [u EXCEPT !.step = "deposited"] ELSE u

\* lines 97-122: the user after a registration event and whether notify is
\* set; found is the resolved row or NoUser.
OnRegistration(found, tenant_id, click_id, trader_id, c) ==
    IF found = NoUser
    THEN [user |-> OpenIfNoDeposit(
                      NewUser(tenant_id, click_id, trader_id, "registered"), c),
          notify |-> TRUE]
    ELSE IF found.step \in {"new", "asked_reg", "asked_deposit"}
         THEN [user |-> OpenIfNoDeposit(
                           Touch(found, click_id, trader_id, "registered"), c),
               notify |-> TRUE]
         ELSE [user |-> found, notify |-> FALSE]

\* Mutant of StepForTotal: any deposit opens the access.
StepForTotalAny(total, c) == "deposited"

\* lines 140 and 151-154
StepForTotal(total, c) ==
    IF total >= c.min_deposit THEN "deposited" ELSE "asked_deposit"

\* lines 125-159: the user after a deposit event; total is dep_total.
OnDeposit(found, tenant_id, click_id, trader_id, c, total) ==
    IF found = NoUser
    THEN [user |-> NewUser(tenant_id, click_id, trader_id,
                           StepForTotal(total, c)),
          notify |-> TRUE]
    ELSE IF found.step = "deposited"
         THEN [user |-> found, notify |-> TRUE]
         ELSE [user |-> Touch(found, click_id, trader_id,
                              StepForTotal(total, c)),
               notify |-> TRUE]

\* lines 162 and 187-241: the screen the handler tries to send.  The tenant's
\* child_bot_token is never empty (onboarding stores a validated token).
Screen(u, notify, c) ==
    IF notify /\ u # NoUser /\ u.tg_user_id # NoTg
    THEN IF u.step = "registered" /\ c.require_deposit
         THEN "step2" ELSE "unlocked"
    ELSE "none"

\* Mutant of TenantNotFound: the request is logged before it is refused.
TenantNotFoundLogged(tenant_id, event, click_id, trader_id, sum_val) ==
    /\ postbacks' = postbacks (+) SetToBag(
           {Postback(tenant_id, event, click_id, trader_id, sum_val, FALSE, 0)})
    /\ last' = Response("tenant not found", FALSE, "none", NoTg)
    /\ UNCHANGED <<cfg, users>>

\* lines 48-49: HTTPException(404, "tenant not found")
TenantNotFound(tenant_id, event, click_id, trader_id, sum_val) ==
    /\ last' = Response("tenant not found", FALSE, "none", NoTg)
    /\ UNCHANGED <<cfg, users, postbacks>>

\* Mutant of Forbidden: the refused request leaves no row.
ForbiddenUnlogged(tenant_id, event, click_id, trader_id, sum_val) ==
    /\ last' = Response("forbidden", FALSE, "none", NoTg)
    /\ UNCHANGED <<cfg, users, postbacks>>

\* lines 59-63: the row with token_ok = False is committed, then
\* HTTPException(403, "forbidden")
Forbidden(tenant_id, event, click_id, trader_id, sum_val) ==
    /\ postbacks' = postbacks (+) SetToBag(
           {Postback(tenant_id, event, click_id, trader_id, sum_val, FALSE, 0)})
    /\ last' = Response("forbidden", FALSE, "none", NoTg)
    /\ UNCHANGED <<cfg, users>>

\* lines 73-74: {"ok": True, "dup": True}
Duplicate ==
    /\ last' = Response("ok", TRUE, "none", NoTg)
    /\ UNCHANGED <<cfg, users, postbacks>>

\* lines 76-249 for the resolved user `found` (NoUser: none).
Apply(found, tenant_id, event, click_id, trader_id, sum_val) ==
    LET c == CfgOrDefault(cfg[tenant_id])
        uid == IF found # NoUser THEN found.id
               ELSE IF event \in {"registration", "deposit"} THEN NextUserId
               ELSE 0
        B == postbacks (+) SetToBag(
                 {Postback(tenant_id, event, click_id, trader_id, sum_val,
                           TRUE, uid)})
        res == IF event = "registration"
               THEN OnRegistration(found, tenant_id, click_id, trader_id, c)
               ELSE IF event = "deposit"
               THEN OnDeposit(found, tenant_id, click_id, trader_id, c,
                              dep_total(B, tenant_id, StrClick(click_id)))
               ELSE [user |-> found, notify |-> FALSE]
        screen == Screen(res.user, res.notify, c)
    IN  /\ postbacks' = B
        /\ cfg' = [cfg EXCEPT ![tenant_id] = c]
        /\ users' = IF res.user = NoUser THEN users
                    ELSE (users \ {found}) \cup {res.user}
        /\ last' = Response("ok", FALSE, screen,
                            IF screen = "none" THEN NoTg
                            ELSE res.user.tg_user_id)

\* GET /pb, one request: what it writes and answers (lines 30-251).
Ingest(tenant_id, raw_event, token, click_id, trader_id, sum_str) ==
    LET event == norm_event(raw_event)
        sum_val == SumVal(sum_str)
        found == FoundUsers(tenant_id, click_id, trader_id)
    IN  /\ BagCardinality(postbacks) < MaxPostbacks
        /\ UNCHANGED <<SupVars, secret_mode, postback_secret>>
        /\ asked' = Request(tenant_id, token)
        /\ IF ~TenantExists(tenant_id)
           THEN TenantNotFound(tenant_id, event, click_id, trader_id, sum_val)
           ELSE IF ~TokenOk(tenant_id, token)
           THEN Forbidden(tenant_id, event, click_id, trader_id, sum_val)
           ELSE IF Existing(tenant_id, event, click_id, sum_val)
           THEN Duplicate
           ELSE \E u \in (IF found = {} THEN {NoUser} ELSE found) :
                    Apply(u, tenant_id, event, click_id, trader_id, sum_val)

\* GET /pb (lines 30-251), one request from its first line to its return.
HandlePostback(tenant_id, raw_event, token, click_id, trader_id, sum_str) ==
    /\ Ingest(tenant_id, raw_event, token, click_id, trader_id, sum_str)
    /\ UNCHANGED opVars

\* --------------------------------------------- worker: the user's handlers
\* on_start (bot_instance.py 616-642): the first /start of a Telegram user
\* creates the row, with the column default step = new.
OnStart(tenant_id, tg) ==
    /\ TenantExists(tenant_id)
    /\ ~\E u \in users : u.tenant_id = tenant_id /\ u.tg_user_id = tg
    /\ users' = users \cup {User(NextUserId, tenant_id, tg, NULL, NULL, "new")}
    /\ UNCHANGED <<SupVars, secret_mode, postback_secret, cfg, postbacks, asked,
                   last, opVars>>

\* `user.step >= UserStep.registered` (line 383): UserStep is a str enum, so
\* the comparison is that of the strings; of the five values only
\* "registered" itself is >= "registered".
GeRegistered(step) == step = "registered"

\* render_get (bot_instance.py 368-455) with the subscription passed: the
\* step it leaves in the row.
RenderGetStep(step, c) ==
    IF step = "deposited" \/ (~c.require_deposit /\ GeRegistered(step))
    THEN IF step # "deposited" /\ ~c.require_deposit THEN "deposited" ELSE step
    ELSE IF step \in {"new", "asked_reg"} THEN "asked_reg" ELSE "asked_deposit"

\* get_cfg (bot_instance.py 114-126) builds the missing row with
\* TenantConfig(..., vip_threshold=500); models.TenantConfig has no such
\* column, so the constructor raises TypeError and the handler that called
\* get_cfg ends there, with nothing written.
GetCfgRaises(tenant_id) == ~cfg[tenant_id].exists

\* get_cfg lines 131-132 and `int(cfg.vip_threshold or 500)`: the loaded row
\* has no vip_threshold attribute, so get_cfg sets it to 500 on the object.
vip_threshold == 500

\* `getattr(user, "vip_notified", False)` of a row just loaded: models.User
\* has no vip_notified column, so the attribute is never there.
VipNotified(u) == FALSE

\* get_deposit_total (bot_instance.py 136-143)
get_deposit_total(B, u) == dep_total(B, u.tenant_id, StrTg(u.tg_user_id))

\* bot.send_message(user.tg_user_id, <premium bot text>)
VipSend(id) == vip_sent (+) SetToBag({id})

\* The messages counted per user: a handler that sends one more is taken
\* while the user has fewer than MaxVipSent.
VipRoom(u) == CopiesIn(u.id, vip_sent) < MaxVipSent

\* render_get lines 383 and 404-441: whether it sends the premium-bot
\* message (only on the way to the "step2" screen).
RenderGetVip(u, c) ==
    /\ ~(u.step = "deposited" \/ (~c.require_deposit /\ GeRegistered(u.step)))
    /\ u.step \notin {"new", "asked_reg"}
    /\ get_deposit_total(postbacks, u) >= vip_threshold
    /\ ~VipNotified(u)

\* on_get up to the first await of render_get's send_screen: the row is
\* queried (754-757), render_get sets user.step on the loaded object and
\* sends what it sends; nothing is committed for the user yet.
GetRead(u) ==
    LET c == cfg[u.tenant_id]
    IN  /\ u \in users
        /\ u.tg_user_id # NoTg
        /\ TenantExists(u.tenant_id)
        /\ ~GetCfgRaises(u.tenant_id)
        /\ ~\E p \in pending : p.id = u.id
        /\ RenderGetVip(u, c) => VipRoom(u)
        /\ pending' = pending \cup
               {[id |-> u.id, loaded |-> u.step,
                 step |-> RenderGetStep(u.step, c)]}
        /\ vip_sent' = IF RenderGetVip(u, c) THEN VipSend(u.id) ELSE vip_sent
        /\ UNCHANGED <<SupVars, secret_mode, postback_secret, cfg, users,
                       postbacks, asked, last, inflight, starting>>

\* The UPDATE of the flush: the step column is written only when the
\* object's step differs from the one that was loaded.
Flushed(v, p) ==
    IF v.id = p.id /\ p.step # p.loaded THEN [v EXCEPT !.step = p.step] ELSE v

\* db.commit() of on_get (line 766) after render_get returned.
GetCommit(p) ==
    /\ p \in pending
    /\ users' = {Flushed(v, p) : v \in users}
    /\ pending' = pending \ {p}
    /\ UNCHANGED <<SupVars, secret_mode, postback_secret, cfg, postbacks, asked,
                   last, vip_sent, inflight, starting>>

\* on_get (bot_instance.py 752-769): "get signal" pressed by the user u,
\* from the query to the commit with nothing in between.
OnGet(u) ==
    LET c == cfg[u.tenant_id]
    IN  /\ u \in users
        /\ u.tg_user_id # NoTg
        /\ TenantExists(u.tenant_id)
        /\ ~GetCfgRaises(u.tenant_id)
        /\ RenderGetVip(u, c) => VipRoom(u)
        /\ users' = (users \ {u}) \cup {[u EXCEPT !.step = RenderGetStep(u.step, c)]}
        /\ vip_sent' = IF RenderGetVip(u, c) THEN VipSend(u.id) ELSE vip_sent
        /\ UNCHANGED <<SupVars, secret_mode, postback_secret, cfg, postbacks,
                       asked, last, pending, inflight, starting>>

\* The tenants table of this specification: tenant 1 was onboarded with a
\* per-tenant secret; no other id has a row.
PbInit ==
    /\ status = [t \in Tenants |-> IF t = 1 THEN "active" ELSE "absent"]
    /\ mgr_pc = "query"
    /\ to_check = {}
    /\ dirty = {}
    /\ lookup = "none"
    /\ active_ids = {}
    /\ to_stop = {}
    /\ procs = {}
    /\ secret_mode = "enabled"
    /\ postback_secret = [t \in Tenants |-> IF t = 1 THEN "s" ELSE ""]
    /\ cfg \in {[t \in Tenants |-> IF t = 1 THEN c ELSE NoCfg] : c \in InitCfgs}
    /\ users = {}
    /\ postbacks = EmptyBag
    /\ asked = NoRequest
    /\ last = NoResponse
    /\ vip_sent = EmptyBag
    /\ pending = {}
    /\ inflight = {}
    /\ starting = {}

\* The tenant_id parameter of a request: the tenant, or 0 (line 34 gives 0
\* for a missing parameter; no row has that id).
RequestTenantIds == {0, 1}

\* The sender gives a sum with a deposit and none with a registration.
RequestSums(raw_event) ==
    IF norm_event(raw_event) = "deposit" THEN RawSums ELSE {NULL}

PbNext ==
    \/ \E tenant_id \in RequestTenantIds, raw_event \in RawEvents,
          token \in Tokens, click_id \in ClickIds \cup {NULL},
          trader_id \in TraderIds \cup {NULL} :
            \E sum_str \in RequestSums(raw_event) :
                HandlePostback(tenant_id, raw_event, token, click_id,
                               trader_id, sum_str)
    \/ \E tg \in TgIds : OnStart(1, tg)
    \/ \E u \in users : OnGet(u)

PbSpec == PbInit /\ [][PbNext]_vars

\* ------------------------------------------- handlers that overlap in time
\* handle_postback from its first line to the first await of the
\* notification part (line 183 or 204/237): the tables are written and
\* committed, the screen is chosen; the coroutine has no suspension point
\* before that, so other requests of the server's event loop run before or
\* after these lines, never in between.
PostbackDecide(tenant_id, raw_event, token, click_id, trader_id, sum_str) ==
    /\ Ingest(tenant_id, raw_event, token, click_id, trader_id, sum_str)
    /\ inflight' =
          IF last'.screen = "none" THEN inflight
          ELSE inflight \cup {[to |-> last'.to, screen |-> last'.screen,
                               event |-> norm_event(raw_event),
                               sum |-> SumVal(sum_str)]}
    /\ UNCHANGED <<vip_sent, pending, starting>>

\* Lines 243-249: Telegram answered, user.last_message_id is committed (the
\* flush writes that column only) and the request returns.
PostbackNotified(r) ==
    /\ r \in inflight
    /\ inflight' = inflight \ {r}
    /\ UNCHANGED <<SupVars, secret_mode, postback_secret, cfg, users,
                   postbacks, asked, last, vip_sent, pending, starting>>

\* The configs of this specification: the default threshold, and one that
\* neither a deposit of 60 nor one of 100 reaches alone.
RaceCfgs == {Cfg(TRUE, DefaultMinDeposit), Cfg(TRUE, 150)}

RaceInit ==
    /\ status = [t \in Tenants |-> IF t = 1 THEN "active" ELSE "absent"]
    /\ mgr_pc = "query"
    /\ to_check = {}
    /\ dirty = {}
    /\ lookup = "none"
    /\ active_ids = {}
    /\ to_stop = {}
    /\ procs = {}
    /\ secret_mode = "enabled"
    /\ postback_secret = [t \in Tenants |-> IF t = 1 THEN "s" ELSE ""]
    /\ cfg \in {[t \in Tenants |-> IF t = 1 THEN c ELSE NoCfg] : c \in RaceCfgs}
    /\ users = {}
    /\ postbacks = EmptyBag
    /\ asked = NoRequest
    /\ last = NoResponse
    /\ vip_sent = EmptyBag
    /\ pending = {}
    /\ inflight = {}
    /\ starting = {}

\* The HTTP server (one event loop) and the tenant's worker (another
\* process) on the same database: verified requests for the Telegram user
\* of ClickIds, and that user's /start and "get signal".
RaceNext ==
    \/ \E raw_event \in RawEvents, click_id \in ClickIds :
          \E sum_str \in RequestSums(raw_event) :
              PostbackDecide(1, raw_event, postback_secret[1], click_id, NULL,
                             sum_str)
    \/ \E r \in inflight : PostbackNotified(r)
    \/ \E tg \in TgIds : OnStart(1, tg)
    \/ \E u \in users : GetRead(u)
    \/ \E p \in pending : GetCommit(p)

RaceSpec == RaceInit /\ [][RaceNext]_vars

\* ------------------------------- worker: progress, access, the owner's panel
\* miniapp_access (access.py 7-16): 200 for a user at step deposited, 403
\* for any other; the tenant's config is not read.
miniapp_access(u) == u.step = "deposited"

\* refresh_progress lines 1825-1844: whether it sends the premium-bot
\* message (a deposited user gets the main menu and nothing else).
RefreshVip(u) ==
    /\ u.step # "deposited"
    /\ get_deposit_total(postbacks, u) >= vip_threshold
    /\ ~VipNotified(u)

\* refresh_progress (bot_instance.py 1801-1881), the subscription passed:
\* it shows the progress and writes no column but last_message_id;
\* user.vip_notified = True (line 1842) is set on the loaded object only.
RefreshProgress(u) ==
    /\ u \in users
    /\ u.tg_user_id # NoTg
    /\ TenantExists(u.tenant_id)
    /\ ~GetCfgRaises(u.tenant_id)
    /\ RefreshVip(u) => VipRoom(u)
    /\ vip_sent' = IF RefreshVip(u) THEN VipSend(u.id) ELSE vip_sent
    /\ UNCHANGED <<SupVars, secret_mode, postback_secret, cfg, users,
                   postbacks, asked, last, pending, inflight, starting>>

\* `int(cfg.min_deposit or 50)` (line 1253)
ManualAmount(c) == IF c.min_deposit = 0 THEN 50 ELSE c.min_deposit

\* vip_do_deposit (bot_instance.py 1234-1305): the owner books a deposit of
\* min_deposit for the user u: a verified ledger row (no look for an
\* earlier one), the step from the new total, the "unlocked" screen, and
\* the premium-bot message when the total reaches vip_threshold.
VipDoDeposit(u) ==
    LET c == cfg[u.tenant_id]
        row == Postback(u.tenant_id, "deposit", StrTg(u.tg_user_id),
                        u.trader_id, ManualAmount(c), TRUE, u.id)
        B == postbacks (+) SetToBag({row})
        total == get_deposit_total(B, u)
        vip == total >= vip_threshold /\ ~VipNotified(u)
    IN  /\ u \in users
        /\ u.tg_user_id # NoTg
        /\ TenantExists(u.tenant_id)
        /\ ~GetCfgRaises(u.tenant_id)
        /\ BagCardinality(postbacks) < MaxPostbacks
        /\ vip => VipRoom(u)
        /\ postbacks' = B
        /\ users' = (users \ {u}) \cup
              {IF total >= c.min_deposit /\ u.step # "deposited"
               THEN [u EXCEPT !.step = "deposited"] ELSE u}
        /\ vip_sent' = IF vip THEN VipSend(u.id) ELSE vip_sent
        /\ UNCHANGED <<SupVars, secret_mode, postback_secret, cfg, asked,
                       last, pending, inflight, starting>>

\* param_toggle_dep (bot_instance.py 1649-1662): the owner switches
\* require_deposit; no row of users is read or written.
ParamToggleDep(tenant_id) ==
    /\ TenantExists(tenant_id)
    /\ ~GetCfgRaises(tenant_id)
    /\ cfg' = [cfg EXCEPT ![tenant_id].require_deposit = ~@]
    /\ UNCHANGED <<SupVars, secret_mode, postback_secret, users, postbacks,
                   asked, last, opVars>>

\* The configs of this specification: the default threshold, and one above
\* vip_threshold.
VipCfgs == {Cfg(TRUE, DefaultMinDeposit), Cfg(TRUE, 1000)}

\* The sums the sender gives with a deposit in this specification.
VipSums(raw_event) ==
    IF norm_event(raw_event) = "deposit" THEN {"100", "500"} ELSE {NULL}

VipInit ==
    /\ status = [t \in Tenants |-> IF t = 1 THEN "active" ELSE "absent"]
    /\ mgr_pc = "query"
    /\ to_check = {}
    /\ dirty = {}
    /\ lookup = "none"
    /\ active_ids = {}
    /\ to_stop = {}
    /\ procs = {}
    /\ secret_mode = "enabled"
    /\ postback_secret = [t \in Tenants |-> IF t = 1 THEN "s" ELSE ""]
    /\ cfg \in {[t \in Tenants |-> IF t = 1 THEN c ELSE NoCfg] : c \in VipCfgs}
    /\ users = {}
    /\ postbacks = EmptyBag
    /\ asked = NoRequest
    /\ last = NoResponse
    /\ vip_sent = EmptyBag
    /\ pending = {}
    /\ inflight = {}
    /\ starting = {}

\* Verified requests for the Telegram user of ClickIds, that user's
\* buttons in the worker, and the owner's panel of the same worker.
VipNext ==
    \/ \E raw_event \in RawEvents, click_id \in ClickIds :
          \E sum_str \in VipSums(raw_event) :
              HandlePostback(1, raw_event, postback_secret[1], click_id, NULL,
                             sum_str)
    \/ \E tg \in TgIds : OnStart(1, tg)
    \/ \E u \in users : OnGet(u)
    \/ \E u \in users : RefreshProgress(u)
    \/ \E u \in users : VipDoDeposit(u)
    \/ ParamToggleDep(1)

VipSpec == VipInit /\ [][VipNext]_vars

\* dp.start_polling hands every update to its handler: a press of "get
\* signal" or of "refresh progress" that would send or store something is
\* eventually handled.  Nothing obliges the sender to post, or the owner to
\* use the panel.
VipFairSpec ==
    /\ VipSpec
    /\ WF_vars(\E u \in users : OnGet(u))
    /\ WF_vars(\E u \in users : RefreshProgress(u))

\* ------------------------------------- the tables under the admin's tools
\* The --events argument of cleanup_postbacks.py (line 13).
CleanupEvents == {"registration", "deposit", "both"}

AdminInit ==
    /\ status = [t \in Tenants |-> IF t = 1 THEN "active" ELSE "absent"]
    /\ mgr_pc = "query"
    /\ to_check = {}
    /\ dirty = {}
    /\ lookup = "none"
    /\ active_ids = {}
    /\ to_stop = {}
    /\ procs = {}
    /\ secret_mode = "enabled"
    /\ postback_secret = [t \in Tenants |-> IF t = 1 THEN "s" ELSE ""]
    /\ cfg \in {[t \in Tenants |-> IF t = 1 THEN c ELSE NoCfg] : c \in InitCfgs}
    /\ users = {}
    /\ postbacks = EmptyBag
    /\ asked = NoRequest
    /\ last = NoResponse
    /\ vip_sent = EmptyBag
    /\ pending = {}
    /\ inflight = {}
    /\ starting = {}

\* The endpoint and /start of the worker fill the tables of tenant 1; the
\* parent bot's admin deletes, purges and cleans; the maintenance script
\* is run from a shell.
AdminNext ==
    \/ \E raw_event \in RawEvents, token \in Tokens, click_id \in ClickIds :
          \E sum_str \in RequestSums(raw_event) :
              HandlePostback(1, raw_event, token, click_id, NULL, sum_str)
    \/ \E tg \in TgIds : OnStart(1, tg)
    \/ \E t \in Tenants : GaDelc(t)
    \/ \E t \in Tenants : GaPurgeDeleted(t)
    \/ \E t \in Tenants : GaCleanHard(t)
    \/ \E click_id \in ClickIds, events \in CleanupEvents :
          CleanupPostbacks(1, click_id, events)

AdminSpec == AdminInit /\ [][AdminNext]_vars

\* ------------------------------------ the endpoint with several tenants
\* The config of every tenant here: a threshold that a deposit of 60 does
\* not reach.
TenantsCfg == Cfg(TRUE, 100)

TenantsInit ==
    /\ status = [t \in Tenants |-> "active"]
    /\ mgr_pc = "query"
    /\ to_check = {}
    /\ dirty = {}
    /\ lookup = "none"
    /\ active_ids = {}
    /\ to_stop = {}
    /\ procs = {}
    /\ secret_mode = "enabled"
    /\ postback_secret = [t \in Tenants |-> "s"]
    /\ cfg = [t \in Tenants |-> TenantsCfg]
    /\ users = {}
    /\ postbacks = EmptyBag
    /\ asked = NoRequest
    /\ last = NoResponse
    /\ vip_sent = EmptyBag
    /\ pending = {}
    /\ inflight = {}
    /\ starting = {}

\* Requests for every tenant with the same click_id, and /start of the same
\* Telegram user in every tenant's worker.
TenantsNext ==
    \/ \E tenant_id \in Tenants, raw_event \in RawEvents,
          token \in Tokens, click_id \in ClickIds :
            \E sum_str \in RequestSums(raw_event) :
                HandlePostback(tenant_id, raw_event, token, click_id, NULL,
                               sum_str)
    \/ \E tenant_id \in Tenants, tg \in TgIds : OnStart(tenant_id, tg)

TenantsSpec == TenantsInit /\ [][TenantsNext]_vars

\* ------------------------------------- the endpoint under either secret mode
\* The `t` query parameter of this specification: a tenant's secret, the
\* global one, the empty string, none.
ModeTokens == {"s", "g", "", NULL}

\* TENANT_SECRET_MODE (settings.py 47) and the secret of a tenant:
\* token_urlsafe(24) of onboarding (onboarding.py 90) or the column default
\* "" (models.py 35).
SecretModes == {"enabled", "disabled"}
TenantSecrets == {"s", ""}

ModeInit ==
    /\ status = [t \in Tenants |-> "active"]
    /\ mgr_pc = "query"
    /\ to_check = {}
    /\ dirty = {}
    /\ lookup = "none"
    /\ active_ids = {}
    /\ to_stop = {}
    /\ procs = {}
    /\ secret_mode \in SecretModes
    /\ postback_secret \in [Tenants -> TenantSecrets]
    /\ cfg = [t \in Tenants |-> NoCfg]
    /\ users = {}
    /\ postbacks = EmptyBag
    /\ asked = NoRequest
    /\ last = NoResponse
    /\ vip_sent = EmptyBag
    /\ pending = {}
    /\ inflight = {}
    /\ starting = {}

\* Requests with every token for every tenant.
ModeNext ==
    \E tenant_id \in Tenants, raw_event \in RawEvents, token \in ModeTokens,
       click_id \in ClickIds :
         \E sum_str \in RequestSums(raw_event) :
             HandlePostback(tenant_id, raw_event, token, click_id, NULL,
                            sum_str)

ModeSpec == ModeInit /\ [][ModeNext]_vars

\* ------------------------------- /start of the worker beside the endpoint
\* on_start lines 618-622 in the worker's process: the query finds no row
\* for the Telegram user.  The worker handles one update of these lines at
\* a time; the server is another process and is not held back by them.
StartQuery(tenant_id, tg) ==
    /\ TenantExists(tenant_id)
    /\ ~\E u \in users : u.tenant_id = tenant_id /\ u.tg_user_id = tg
    /\ ~\E p \in starting : p.tenant_id = tenant_id
    /\ starting' = starting \cup {[tenant_id |-> tenant_id, tg |-> tg]}
    /\ UNCHANGED <<SupVars, secret_mode, postback_secret, cfg, users,
                   postbacks, asked, last, vip_sent, pending, inflight>>

\* on_start lines 623-626: the row is added and committed.  users has no
\* unique constraint on (tenant_id, tg_user_id) (models.py 58-71), so the
\* commit succeeds whatever rows the table holds by now and the `except`
\* of lines 627-632 is not entered.
StartInsert(p) ==
    /\ p \in starting
    /\ users' = users \cup
          {User(NextUserId, p.tenant_id, p.tg, NULL, NULL, "new")}
    /\ starting' = starting \ {p}
    /\ UNCHANGED <<SupVars, secret_mode, postback_secret, cfg, postbacks,
                   asked, last, vip_sent, pending, inflight>>

StartInit ==
    /\ status = [t \in Tenants |-> IF t = 1 THEN "active" ELSE "absent"]
    /\ mgr_pc = "query"
    /\ to_check = {}
    /\ dirty = {}
    /\ lookup = "none"
    /\ active_ids = {}
    /\ to_stop = {}
    /\ procs = {}
    /\ secret_mode = "enabled"
    /\ postback_secret = [t \in Tenants |-> IF t = 1 THEN "s" ELSE ""]
    /\ cfg \in {[t \in Tenants |-> IF t = 1 THEN c ELSE NoCfg] : c \in InitCfgs}
    /\ users = {}
    /\ postbacks = EmptyBag
    /\ asked = NoRequest
    /\ last = NoResponse
    /\ vip_sent = EmptyBag
    /\ pending = {}
    /\ inflight = {}
    /\ starting = {}

\* The tenant's worker handling /start and the server handling verified
\* requests for the same Telegram user.
StartNext ==
    \/ \E tg \in TgIds : StartQuery(1, tg)
    \/ \E p \in starting : StartInsert(p)
    \/ \E raw_event \in RawEvents, click_id \in ClickIds :
          \E sum_str \in RequestSums(raw_event) :
              HandlePostback(1, raw_event, postback_secret[1], click_id, NULL,
                             sum_str)

StartSpec == StartInit /\ [][StartNext]_vars

\* ------------------------------------------- the postback URLs on display
\* ga_pb (ga.py 222) and the worker's panel (bot_instance.py 1128): the
\* token put into the URLs shown to the administrator and to the owner,
\* `t.postback_secret or settings.global_postback_secret`.
PostbackUrlToken(tenant_id) ==
    IF postback_secret[tenant_id] # "" THEN postback_secret[tenant_id]
    ELSE global_postback_secret

\* settings.py 47: TENANT_SECRET_MODE is read from the environment when a
\* process starts; the services are started again with another value.
Reconfigure(mode) ==
    /\ mode # secret_mode
    /\ secret_mode' = mode
    /\ UNCHANGED <<status, MgrVars, procs, postback_secret, cfg, users,
                   postbacks, asked, last, opVars>>

UrlInit ==
    /\ status = [t \in Tenants |-> "absent"]
    /\ mgr_pc = "query"
    /\ to_check = {}
    /\ dirty = {}
    /\ lookup = "none"
    /\ active_ids = {}
    /\ to_stop = {}
    /\ procs = {}
    /\ secret_mode \in SecretModes
    /\ postback_secret = [t \in Tenants |-> ""]
    /\ cfg = [t \in Tenants |-> NoCfg]
    /\ users = {}
    /\ postbacks = EmptyBag
    /\ asked = NoRequest
    /\ last = NoResponse
    /\ vip_sent = EmptyBag
    /\ pending = {}
    /\ inflight = {}
    /\ starting = {}

\* Owners connect their bots, the services are reconfigured, and the
\* affiliate network posts to the URL that was on display.
UrlNext ==
    \/ \E t \in Tenants : Onboard(t)
    \/ \E mode \in SecretModes : Reconfigure(mode)
    \/ \E tenant_id \in Tenants, raw_event \in RawEvents,
          click_id \in ClickIds :
            \E sum_str \in RequestSums(raw_event) :
                /\ TenantExists(tenant_id)
                /\ HandlePostback(tenant_id, raw_event,
                                  PostbackUrlToken(tenant_id), click_id, NULL,
                                  sum_str)

UrlSpec == UrlInit /\ [][UrlNext]_vars

\* ------------------------------------- events that carry only a trader id
\* The `trader_id` query parameter (line 38) of a sender that passes no
\* click_id: the ids the affiliate network gave to two traders.
SenderTraderIds == {"T", "U"}

\* Verified events of tenant 1 without click_id, told apart by trader_id
\* alone (the third look-up of lines 91-93).
TraderNext ==
    \E raw_event \in RawEvents, trader_id \in SenderTraderIds :
        \E sum_str \in RequestSums(raw_event) :
            HandlePostback(1, raw_event, postback_secret[1], NULL, trader_id,
                           sum_str)

TraderSpec == PbInit /\ [][TraderNext]_vars

\* ------------------------------------------------ sums with a minus sign
\* The `sum` parameter of a sender that also reports amounts below zero.
SignedSums == RawSums \cup {"-60.9"}

\* Verified events of tenant 1 for the click_id "7".
SignedNext ==
    \E raw_event \in RawEvents :
        \E sum_str \in (IF norm_event(raw_event) = "deposit"
                         THEN SignedSums ELSE {NULL}) :
            HandlePostback(1, raw_event, postback_secret[1], "7", NULL, sum_str)

SignedSpec == PbInit /\ [][SignedNext]_vars

\* -------------------------------------------- the tenants of one owner
\* _has_any_attached (onboarding.py 24-27) for an owner to whom every row
\* of tenants belongs: a row with status active or paused.
has_any_attached == \E t \in Tenants : status[t] \in {"active", "paused"}

\* got_token (onboarding.py 53-100) for that owner: refused while a bot is
\* attached (lines 75-81; no await between the check and the commit).
GotToken(t) == ~has_any_attached /\ Onboard(t)

\* One owner connects bots, the global admin toggles and deletes them, and
\* the endpoint and /start of the worker fill the tables of the first one.
OwnerNext ==
    \/ \E t \in Tenants : GotToken(t)
    \/ \E t \in Tenants : GaToggle(t)
    \/ \E t \in Tenants : GaDelc(t)
    \/ \E raw_event \in RawEvents, click_id \in ClickIds :
          \E sum_str \in RequestSums(raw_event) :
              /\ TenantExists(1)
              /\ HandlePostback(1, raw_event, PostbackUrlToken(1), click_id,
                                NULL, sum_str)
    \/ \E tg \in TgIds : OnStart(1, tg)

OwnerSpec == UrlInit /\ [][OwnerNext]_vars

\* ------------------------------------------------ the gate of the worker
\* TenantGate.__call__ (bot_instance.py 458-482), the outer middleware of
\* every message and callback query of a worker: whether it goes on to
\* `return await handler(event, data)`.  Inside one try it reads the status
\* (no row: deleted) and, when that is not active, awaits event.answer and
\* returns; `except Exception` logs and does not return.  lookup_ok: the
\* query did not raise; answer_ok: event.answer did not raise (Telegram
\* refuses it for a user who blocked the bot, for an old callback query).
\* The handler actions above are the handlers past this gate.
GateOpen(tenant_id, lookup_ok, answer_ok) ==
    IF ~lookup_ok THEN TRUE
    ELSE IF tenant_id \in Tenants /\ status[tenant_id] = "active" THEN TRUE
    ELSE ~answer_ok

\* /start and the "get signal" button through the gate.
GatedStart(tenant_id, tg, lookup_ok, answer_ok) ==
    /\ GateOpen(tenant_id, lookup_ok, answer_ok)
    /\ OnStart(tenant_id, tg)

GatedGet(u, lookup_ok, answer_ok) ==
    /\ GateOpen(u.tenant_id, lookup_ok, answer_ok)
    /\ OnGet(u)

\* The worker of tenant 1 keeps polling while the global admin pauses,
\* resumes and deletes the tenant and the endpoint takes its events.
GateNext ==
    \/ \E tg \in TgIds, lookup_ok, answer_ok \in BOOLEAN :
          GatedStart(1, tg, lookup_ok, answer_ok)
    \/ \E u \in users, lookup_ok, answer_ok \in BOOLEAN :
          GatedGet(u, lookup_ok, answer_ok)
    \/ \E t \in Tenants : GaToggle(t)
    \/ \E t \in Tenants : GaDelc(t)
    \/ \E raw_event \in RawEvents, click_id \in ClickIds :
          \E sum_str \in RequestSums(raw_event) :
              HandlePostback(1, raw_event, postback_secret[1], click_id, NULL,
                             sum_str)

GateSpec == AdminInit /\ [][GateNext]_vars


\* ------------------------------------------------------------ properties

\* C1: in every reachable state at most one worker loop (_child_entry task
\* that has not finished) is alive for any tenant id.
C1_MutualExclusion == \A t \in Tenants : Cardinality(AliveOf(t)) <= 1

\* stop_task is waiting for a worker that swallowed its cancellation while
\* its tenant is Active in the table again.
C1_Witness ==
    /\ mgr_pc = "await"
    /\ \E p \in procs : p.ref = "await" /\ ~IsDone(p) /\ status[p.tid] = "active"

\* C2: when a reconciliation cycle has completed (manager_loop is in the
\* sleep of line 114), the tenants with a running worker are exactly the
\* tenants read as Active by the cycle's second query, made after its
\* auto-pause commit, and they are exactly the keys of the tasks dict.
C2_Convergence ==
    mgr_pc = "sleep" => Running = active_ids /\ TaskKeys = active_ids

\* A completed cycle with one tenant running and another, Paused, not.
C2_Witness ==
    /\ mgr_pc = "sleep"
    /\ \E a, b \in Tenants :
         /\ a \in Running /\ status[a] = "active"
         /\ b \notin Running /\ status[b] = "paused"

\* C3: if a tenant's run-state changes and then stays unchanged, by the
\* end of the next reconciliation cycle a newly Active tenant has a running
\* worker and a no-longer-Active tenant has none.  Stated here in the weaker
\* form "eventually and from then on" under FairSpec: a run-state that
\* stays not Active leads to no worker, one that stays Active to a worker.
C3_Responsiveness ==
    \A t \in Tenants :
        /\ <>[](status[t] # "active") => <>[](AliveOf(t) = {})
        /\ <>[](status[t] = "active") => <>[](AliveOf(t) # {})

\* C4: a worker task cancelled by the supervisor is ended by the
\* cancellation: once task.cancel() was called on it, the task is never
\* inside run_child_bot (polling) again.
C4_CancelledNeverRunsAgain ==
    \A p \in procs : p.cancelled => p.pos # "polling"

\* C5: whatever a reconciliation tick raises, manager_loop does not
\* terminate.
C5_SupervisorSurvives == mgr_pc # "terminated"

\* C6: a worker task finishes only by cancellation, and as long as it is in
\* the tasks dict each end of run_child_bot (return or exception) takes it
\* to the fixed sleep, and the only way out of the sleep is another call of
\* run_child_bot, however many came before.
C6_CrashRestart ==
    /\ [](\A p \in procs : IsDone(p) => p.cancelled)
    /\ [][\A p \in tasks : \A q \in tasks' :
            (q.tid = p.tid /\ q # p) =>
                /\ ~IsDone(q)
                /\ p.pos = "created" => q.runs = "once"
                /\ p.pos = "polling" => q.pos = "backoff" /\ q.runs = p.runs
                /\ p.pos = "backoff" =>
                       q.pos \in {"polling", "backoff"} /\ q.runs = "again"]_vars

\* A task that is polling again after an earlier run_child_bot ended.
C6_Witness ==
    \E p \in tasks : p.pos = "polling" /\ p.runs = "again" /\ ~p.cancelled

\* A step in which the task p of the dict leaves or fails to enter
\* run_child_bot without having been cancelled: run_child_bot crashed (or
\* returned).
CrashOf(p) ==
    /\ p \in tasks
    /\ p \notin procs'
    /\ \E q \in procs' : q.tid = p.tid
    /\ \A q \in procs' : q.tid = p.tid => ~q.cancelled /\ q.pos # "polling"

\* C7: a crash of tenant X's worker leaves the keys of the tasks dict
\* unchanged with X's task still alive under its key, leaves every other
\* tenant's worker as it was, and leaves manager_loop where it was.
C7_CrashIsolation ==
    [][\A p \in procs :
          CrashOf(p) =>
              /\ TaskKeys' = TaskKeys
              /\ \E q \in tasks' : q.tid = p.tid /\ ~IsDone(q)
              /\ {r \in procs' : r.tid # p.tid} = {r \in procs : r.tid # p.tid}
              /\ UNCHANGED MgrVars
              /\ mgr_pc' # "terminated"]_vars

\* X's worker sleeps after a crash while another tenant's worker polls and
\* manager_loop is in a tick.
C7_Witness ==
    /\ mgr_pc = "check"
    /\ \E p, q \in tasks :
         /\ p.tid # q.tid
         /\ p.pos = "backoff"
         /\ q.pos = "polling"

\* C8: the wait of stop_task for a cancelled worker always ends, so the
\* reconciliation cycle goes on.
C8_BoundedStop == (mgr_pc = "await") ~> (mgr_pc # "await")

\* The commit of line 95 is taken.
CommitStep == mgr_pc = "commit" /\ mgr_pc' = "requery"

\* Lines 98-102 are taken.
RequeryStep == mgr_pc = "requery" /\ mgr_pc' = "stop"

C10_FailClosed ==
    [][/\ (mgr_pc = "check" /\ to_check' # to_check /\ lookup' = "error")
            => (to_check \ to_check') \subseteq dirty'
       /\ mgr_pc = "check" => dirty \subseteq dirty'
       /\ CommitStep => \A t \in dirty : status'[t] = "paused"]_vars

\* The last lookup of the tick raised, its tenant is the only one marked
\* and is now Paused.
C10_Witness ==
    /\ mgr_pc = "requery"
    /\ lookup = "error"
    /\ \E t \in Tenants : dirty = {t} /\ status[t] = "paused"

\* The task manager_loop supervises for tenant t: the value of tasks[t],
\* not cancelled and not finished.
Supervised(t) == {p \in tasks : p.tid = t /\ ~p.cancelled /\ ~IsDone(p)}

\* The supervised worker of tenant t is inside run_child_bot.
Polls(t) == \E p \in Supervised(t) : p.pos = "polling"

\* The supervised worker of tenant t is about to call run_child_bot
\* (again): the task was created, or it is in the sleep that follows a
\* failed call.
AwaitsStart(t) == \E p \in Supervised(t) : p.pos \in {"created", "backoff"}

\* C11: the restarts of a worker that fails at every start are capped: if
\* every call of run_child_bot for a tenant ends, then from some point on
\* no further call is pending for that tenant (the supervisor gave it up).
C11_RestartCap ==
    \A t \in Tenants :
        [](Polls(t) => <>~Polls(t)) => <>[]~AwaitsStart(t)

\* ----------------------------------------------- properties of ingestion
\* The verified rows of the ledger with the idempotency key of a request.
VerifiedWithKey(tenant_id, event, click_id, sum_val) ==
    {r \in BagToSet(postbacks) :
        /\ r.token_ok
        /\ r.tenant_id = tenant_id
        /\ r.event = event
        /\ r.click_id = click_id
        /\ r.sum = sum_val}

\* The three tables the endpoint writes.
Tables == <<postbacks, users, cfg>>

\* C12: a request with a valid token that repeats the (tenant, event,
\* click_id, sum) of a verified row r of the ledger is answered {"ok": True} without a change of
\* the ledger, of any user or of a config and without a screen being sent;
\* and the ledger never holds two verified rows with the same key, so the
\* two submissions leave exactly one row.
C12_Idempotency ==
    /\ [](\A r \in BagToSet(postbacks) :
            r.token_ok =>
                /\ CopiesIn(r, postbacks) = 1
                /\ VerifiedWithKey(r.tenant_id, r.event, r.click_id, r.sum)
                       = {r})
    /\ [][\A r \in {x \in BagToSet(postbacks) : x.token_ok} :
            \A raw_event \in {e \in RawEvents : norm_event(e) = r.event} :
              \A sum_str \in {m \in RawSums \cup {NULL} : SumVal(m) = r.sum} :
                \A token \in {k \in Tokens : TokenOk(r.tenant_id, k)},
                   trader_id \in TraderIds \cup {NULL} :
                     HandlePostback(r.tenant_id, raw_event, token, r.click_id,
                                    trader_id, sum_str)
                     => /\ UNCHANGED Tables
                        /\ last'.code = "ok"
                        /\ last'.screen = "none"]_vars

\* The second of two identical requests was answered: one verified row, one
\* user, and the "dup" answer.
C12_Witness ==
    /\ last = Response("ok", TRUE, "none", NoTg)
    /\ BagCardinality(postbacks) = 1
    /\ \E r \in BagToSet(postbacks) : r.token_ok /\ r.uid # 0
    /\ Cardinality(users) = 1

\* The verified part of a ledger.
Verified(B) == [r \in {x \in BagToSet(B) : x.token_ok} |-> B[r]]

\* A step of the endpoint: it answered a request.
RequestStep == asked' # asked \/ last' # last \/ postbacks' # postbacks

\* The request just handled named an existing tenant and its token does not
\* verify.
Unauthorized ==
    /\ RequestStep
    /\ TenantExists(asked'.tenant_id)
    /\ ~TokenOk(asked'.tenant_id, asked'.token)

\* C13: a request whose token does not verify changes no user (so no step)
\* and no deposit total, and adds nothing to the verified rows the
\* deduplication looks at; and a request with a valid token that repeats a
\* refused row r whose key has no verified row yet is recorded as verified
\* and answered as applied.
C13_UnauthorizedIsolation ==
    /\ [][Unauthorized =>
            /\ users' = users
            /\ Verified(postbacks') = Verified(postbacks)
            /\ \A c \in ClickIds \cup {NULL} :
                  dep_total(postbacks', 1, StrClick(c))
                      = dep_total(postbacks, 1, StrClick(c))]_vars
    /\ [][\A r \in BagToSet(postbacks) :
            \A raw_event \in RawEvents, token \in Tokens,
               sum_str \in RawSums \cup {NULL} :
                 (/\ ~r.token_ok
                  /\ TokenOk(r.tenant_id, token)
                  /\ norm_event(raw_event) = r.event
                  /\ SumVal(sum_str) = r.sum
                  /\ VerifiedWithKey(r.tenant_id, r.event, r.click_id,
                                     r.sum) = {}
                  /\ HandlePostback(r.tenant_id, raw_event, token, r.click_id,
                                    r.trader_id, sum_str))
                 => /\ VerifiedWithKey(r.tenant_id, r.event, r.click_id,
                                       r.sum)' # {}
                    /\ last'.code = "ok"
                    /\ ~last'.dup]_vars

\* A refused row and a verified row with the same key, click_id and
\* trader_id are both in the ledger, and the verified one was applied to a
\* user.
C13_Witness ==
    \E r, q \in BagToSet(postbacks) :
        /\ ~r.token_ok
        /\ q.token_ok
        /\ q.uid # 0
        /\ [r EXCEPT !.token_ok = TRUE, !.uid = q.uid] = q
        /\ r.event = "deposit"

\* C14: for an existing tenant and a token that does not verify, the
\* request adds exactly one row, of that tenant and with token_ok = False,
\* is answered 403 "forbidden", and leaves users and configs as they were.
C14_UnauthorizedAudited ==
    [][Unauthorized =>
        /\ \E r \in BagToSet(postbacks') :
              /\ postbacks' = postbacks (+) SetToBag({r})
              /\ ~r.token_ok
              /\ r.tenant_id = asked'.tenant_id
        /\ last' = Response("forbidden", FALSE, "none", NoTg)
        /\ UNCHANGED <<users, cfg>>]_vars

\* A request was refused while the tenant has a user and no config row.
C14_Witness ==
    /\ last.code = "forbidden"
    /\ asked = Request(1, "g")
    /\ \E r \in BagToSet(postbacks) : ~r.token_ok
    /\ users # {}
    /\ ~cfg[1].exists

\* C15: a request whose tenant_id has no row is answered 404 "tenant not
\* found" whatever its token and other parameters, and leaves the ledger,
\* the users and the configs as they were.
C15_TenantNotFound ==
    [][(RequestStep /\ ~TenantExists(asked'.tenant_id)) =>
        /\ last' = Response("tenant not found", FALSE, "none", NoTg)
        /\ UNCHANGED Tables]_vars

\* A request for an unknown tenant was answered while the tables are not
\* empty.
C15_Witness ==
    /\ last.code = "tenant not found"
    /\ asked = Request(0, "s")
    /\ postbacks # EmptyBag
    /\ users # {}

\* The verified deposits the endpoint applied to the user with this id.
UserDeposits(B, id) ==
    {r \in BagToSet(B) : r.token_ok /\ r.event = "deposit" /\ r.uid = id}

UserTotal(B, id) == SumOf(UserDeposits(B, id), B)

\* The step of the endpoint recorded a verified deposit for the user u of
\* the new state.
DepositApplied(u) ==
    \E r \in UserDeposits(postbacks', u.id) :
        postbacks' = postbacks (+) SetToBag({r})

\* C16: when a tenant requires a deposit, after each verified deposit
\* matched to a user that user's step is deposited if the sum of the user's
\* verified deposits is at least min_deposit and asked_deposit otherwise.
C16_ThresholdCorrectness ==
    [][\A u \in users' :
          (cfg'[u.tenant_id].require_deposit /\ DepositApplied(u))
          => u.step = IF UserTotal(postbacks', u.id)
                             >= cfg'[u.tenant_id].min_deposit
                      THEN "deposited" ELSE "asked_deposit"]_vars

\* The example: tenant 1 with min_deposit = 100 and the user whose events
\* carry click_id "7".
ExCfg == cfg[1].require_deposit /\ CfgOrDefault(cfg[1]).min_deposit = 100

\* The verified events ingested so far are those of the example's user and
\* are the <<event, sum>> pairs E.
ExHistory(E) ==
    LET rows == {r \in BagToSet(postbacks) : r.token_ok}
    IN  /\ \A r \in rows : r.tenant_id = 1 /\ r.click_id = "7"
        /\ {<<r.event, r.sum>> : r \in rows} = E

\* The step of the example's user among the rows U; "none" without a row.
ExStep(U) ==
    LET mine == {u \in U : u.tenant_id = 1 /\ u.tg_user_id = 7}
    IN  IF mine = {} THEN "none" ELSE (CHOOSE u \in mine : TRUE).step

ExTotal(B) == dep_total(B, 1, "7")

\* The events of the example, as verified requests.
ExRegistration(trader_id) == HandlePostback(1, "reg", "s", "7", trader_id, NULL)
ExDeposit60(trader_id) == HandlePostback(1, "Deposit", "s", "7", trader_id, "60.9")
ExDeposit100(trader_id) == HandlePostback(1, "Deposit", "s", "7", trader_id, "100")

\* After the registration and the first deposit of 60.
ExAfterFirst60 ==
    /\ ExHistory({<<"registration", 0>>, <<"deposit", 60>>})
    /\ ExStep(users) = "asked_deposit"
    /\ ExTotal(postbacks) = 60

\* C17 as stated: Registration gives registered, Deposit(60) gives
\* asked_deposit with total 60, a second Deposit(60) gives deposited with
\* total 120, and Deposit(100) then gives deposited with total 220.
C17_Example ==
    [][ExCfg =>
        \A trader_id \in TraderIds \cup {NULL} :
          /\ (ExHistory({}) /\ ExRegistration(trader_id))
             => ExStep(users') = "registered"
          /\ (ExHistory({<<"registration", 0>>}) /\ ExDeposit60(trader_id))
             => ExStep(users') = "asked_deposit" /\ ExTotal(postbacks') = 60
          /\ (ExAfterFirst60 /\ ExDeposit60(trader_id))
             => ExStep(users') = "deposited" /\ ExTotal(postbacks') = 120
          /\ (/\ ExStep(users) = "deposited"
              /\ ExTotal(postbacks) = 120
              /\ ExDeposit100(trader_id))
             => ExStep(users') = "deposited" /\ ExTotal(postbacks') = 220]_vars

\* C17, amended: Registration gives registered, Deposit(60) gives
\* asked_deposit with total 60, the second Deposit(60) repeats the key of the
\* first and changes nothing (asked_deposit, total 60), and Deposit(100)
\* then gives deposited with total 160.
C17_ExampleWithDuplicate ==
    [][ExCfg =>
        \A trader_id \in TraderIds \cup {NULL} :
          /\ (ExHistory({}) /\ ExRegistration(trader_id))
             => ExStep(users') = "registered"
          /\ (ExHistory({<<"registration", 0>>}) /\ ExDeposit60(trader_id))
             => ExStep(users') = "asked_deposit" /\ ExTotal(postbacks') = 60
          /\ (ExAfterFirst60 /\ ExDeposit60(trader_id))
             => /\ UNCHANGED Tables
                /\ last' = Response("ok", TRUE, "none", NoTg)
                /\ ExStep(users') = "asked_deposit"
                /\ ExTotal(postbacks') = 60
          /\ (ExAfterFirst60 /\ ExDeposit100(trader_id))
             => ExStep(users') = "deposited" /\ ExTotal(postbacks') = 160]_vars

\* The whole example was ingested: the three distinct events are in the
\* ledger, the total is 160 and the user is deposited.
C17_Witness ==
    /\ ExCfg
    /\ ExHistory({<<"registration", 0>>, <<"deposit", 60>>, <<"deposit", 100>>})
    /\ ExStep(users) = "deposited"
    /\ ExTotal(postbacks) = 160

\* C18: when the tenant requires a deposit, a verified deposit recorded for
\* a user who is already deposited sends that user no "unlocked" (access
\* granted) screen.
C18_AccessGrantedOnce ==
    [][\A u \in users :
          (/\ u.step = "deposited"
           /\ CfgOrDefault(cfg[u.tenant_id]).require_deposit
           /\ \E v \in users' : v.id = u.id /\ DepositApplied(v))
          => ~(last'.screen = "unlocked" /\ last'.to = u.tg_user_id)]_vars

\* The step the endpoint leaves when the example's user has no events yet
\* and the registration is ingested first and the deposit of `total` second.
RegistrationThenDeposit(c, trader_id, total) ==
    LET registered == OnRegistration(NoUser, 1, "7", trader_id, c).user
    IN  OnDeposit(registered, 1, "7", trader_id, c, total).user.step

\* C19: for a tenant that requires a deposit, when the only verified event
\* of a user is a deposit and the user's registration is ingested after it,
\* the user ends in the step that the same two events give when the
\* registration is ingested first.
C19_OrderIndependence ==
    [][\A trader_id \in TraderIds \cup {NULL}, sum_str \in RawSums :
          (/\ CfgOrDefault(cfg[1]).require_deposit
           /\ ExHistory({<<"deposit", SumVal(sum_str)>>})
           /\ ExRegistration(trader_id))
          => ExStep(users') = RegistrationThenDeposit(
                 CfgOrDefault(cfg[1]), trader_id, SumVal(sum_str))]_vars

\* The place of a step in the order new < asked_reg < registered <
\* asked_deposit < deposited.
Rank(step) == CHOOSE i \in DOMAIN UserStep : UserStep[i] = step

\* C20: no request to the endpoint and no "get signal" of a user moves a
\* user's step to an earlier stage.
C20_MonotonicStep ==
    [][\A u \in users : \A v \in users' :
          v.id = u.id => Rank(v.step) >= Rank(u.step)]_vars

\* ------------------------------------- properties of overlapping handlers
\* C21: once a user's stored step is deposited, no step of the endpoint or
\* of the worker's "get signal" stores another step for that user.
C21_DepositedIsTerminal ==
    [][\A u \in users : \A v \in users' :
          (u.step = "deposited" /\ v.id = u.id) => v.step = "deposited"]_vars

\* C22: requests to /pb that overlap in time (one is still sending its
\* screen while the next is decided) leave what one request after the other
\* leaves: the ledger never holds two verified rows with one key; a request
\* that repeats the key of a request still in flight is answered as a
\* duplicate and writes nothing; and a verified deposit that brings the
\* user's total to min_deposit leaves the user deposited, whatever other
\* requests are in flight.
C22_PerUserSerialization ==
    /\ [](\A r \in BagToSet(postbacks) :
            r.token_ok =>
                /\ CopiesIn(r, postbacks) = 1
                /\ VerifiedWithKey(r.tenant_id, r.event, r.click_id, r.sum)
                       = {r})
    /\ [][\A r \in inflight :
            \A raw_event \in RawEvents, click_id \in ClickIds,
               sum_str \in RawSums \cup {NULL} :
                 (/\ norm_event(raw_event) = r.event
                  /\ SumVal(sum_str) = r.sum
                  /\ ToInt(click_id) = r.to
                  /\ PostbackDecide(1, raw_event, postback_secret[1], click_id,
                                    NULL, sum_str))
                 => UNCHANGED Tables /\ last'.dup]_vars
    /\ [][\A v \in users' :
            (/\ DepositApplied(v)
             /\ cfg'[v.tenant_id].require_deposit
             /\ UserTotal(postbacks', v.id) >= cfg'[v.tenant_id].min_deposit)
            => v.step = "deposited"]_vars

\* Two deposits, of 60 and of 100, are both still sending their screens;
\* neither reaches the threshold of 150 alone, and the user is deposited.
C22_Witness ==
    /\ cfg[1].min_deposit = 150
    /\ \E r, q \in inflight :
          /\ r.event = "deposit" /\ r.sum = 60
          /\ q.event = "deposit" /\ q.sum = 100
    /\ ExTotal(postbacks) = 160
    /\ ExStep(users) = "deposited"


\* ----------------------------------- properties of access and of the panel

\* C23: in every state, a user of a tenant whose require_deposit is false
\* and whose step is registered or later passes the /miniapp/access check,
\* whenever the user reached that step.
C23_NoDepositAccess ==
    \A u \in users :
        (/\ ~CfgOrDefault(cfg[u.tenant_id]).require_deposit
         /\ Rank(u.step) >= Rank("registered"))
        => miniapp_access(u)


\* C24: in every state, whatever render_get, refresh_progress and the
\* owner's manual deposit did so far, no user has been sent the
\* premium-bot message more than once.
C24_VipOneShot == \A u \in users : CopiesIn(u.id, vip_sent) <= 1


\* The verified deposits of the Telegram user tg reach vip_threshold.
VipEligible(tg) ==
    \E u \in users : u.tg_user_id = tg
                     /\ get_deposit_total(postbacks, u) >= vip_threshold

\* The premium-bot message went to the Telegram user tg.
VipFired(tg) ==
    \E u \in users : u.tg_user_id = tg /\ CopiesIn(u.id, vip_sent) >= 1

\* C25: once the verified deposits of a user reach vip_threshold, the
\* premium-bot message is eventually sent to that user, whatever the step
\* of the user is at that moment (deposited included).
C25_VipWhateverStep == \A tg \in TgIds : VipEligible(tg) ~> VipFired(tg)


\* C26: a request to the endpoint that sends a screen to a Telegram user
\* has created that user's row or changed its step; a request that leaves
\* the step as it was sends nothing.
C26_SignalOnlyOnChange ==
    [][(RequestStep /\ last'.screen # "none")
       => \E v \in users' :
             /\ v.tg_user_id = last'.to
             /\ \A u \in users : u.id = v.id => u.step # v.step]_vars


\* ------------------------------------------- properties of the admin tools

\* C27: no step of the system takes a recorded row out of the ledger or
\* changes it: every row of postbacks is in postbacks after the step, in
\* at least as many copies.
C27_LedgerAppendOnly ==
    [][\A r \in BagToSet(postbacks) :
          CopiesIn(r, postbacks') >= CopiesIn(r, postbacks)]_vars

\* C28: a step that removes a tenant's config row removes the tenant's row
\* as well.
C28_ConfigWithTenant ==
    [][\A t \in Tenants :
          (cfg[t].exists /\ ~cfg'[t].exists) => status'[t] = "absent"]_vars


\* ------------------------------- properties of the endpoint, many tenants

\* The rows of tenant t in the tables X (users) and B (postbacks).
UsersOf(X, t) == {u \in X : u.tenant_id = t}
RowsOf(B, t) == {<<r, CopiesIn(r, B)>> : r \in {x \in BagToSet(B) : x.tenant_id = t}}

\* C29: a request to the endpoint for tenant A leaves the ledger rows, the
\* users and the config of every other tenant as they were; it is answered
\* "dup" only when A itself has a verified row; the row it records names a
\* user of A; and a deposit it applies to a user who was not deposited
\* opens the access exactly when the verified deposits recorded for that
\* user of A reach A's min_deposit.
C29_TenantIndependence ==
    [][RequestStep =>
         LET A == asked'.tenant_id
         IN  /\ \A B \in Tenants \ {A} :
                   /\ cfg'[B] = cfg[B]
                   /\ UsersOf(users', B) = UsersOf(users, B)
                   /\ RowsOf(postbacks', B) = RowsOf(postbacks, B)
             /\ last'.dup =>
                   \E r \in BagToSet(postbacks) : r.tenant_id = A /\ r.token_ok
             /\ \A r \in BagToSet(postbacks') :
                   (CopiesIn(r, postbacks') > CopiesIn(r, postbacks)
                    /\ r.uid # 0)
                   => \E v \in UsersOf(users', A) : v.id = r.uid
             /\ \A v \in users' :
                   (/\ DepositApplied(v)
                    /\ \A u \in users : u.id = v.id => u.step # "deposited")
                   => (v.step = "deposited"
                       <=> UserTotal(postbacks', v.id)
                              >= cfg'[v.tenant_id].min_deposit)]_vars

\* Two tenants hold a verified deposit with the same click_id and sum, each
\* has its own user for the Telegram id, and the two users are at
\* different steps.
C29_Witness ==
    \E r, q \in BagToSet(postbacks) :
        /\ r.tenant_id = 1 /\ q.tenant_id = 2
        /\ r.token_ok /\ q.token_ok
        /\ r.event = "deposit" /\ q.event = "deposit"
        /\ r.click_id = q.click_id /\ r.sum = q.sum
        /\ \E u, v \in users :
              /\ u.id = r.uid /\ u.tenant_id = 1 /\ u.step = "deposited"
              /\ v.id = q.uid /\ v.tenant_id = 2 /\ v.step = "asked_deposit"

\* What the token check is to give for the request `a` of a tenant that
\* exists, by the mode of the settings.
ExpectVerified(a) ==
    IF secret_mode = "enabled"
    THEN postback_secret[a.tenant_id] # ""
         /\ a.token = postback_secret[a.tenant_id]
    ELSE a.token = global_postback_secret

\* C30: a request for an existing tenant is verified (answered ok, its row
\* if any recorded with token_ok = True) exactly when, with per-tenant
\* secrets enabled, the tenant's secret is not empty and the token equals
\* it, and otherwise when the token equals the global secret; any other
\* request is refused and recorded with token_ok = False.
C30_TokenByMode ==
    [][(RequestStep /\ TenantExists(asked'.tenant_id)) =>
         /\ last'.code = (IF ExpectVerified(asked') THEN "ok" ELSE "forbidden")
         /\ \A r \in BagToSet(postbacks') :
               CopiesIn(r, postbacks') > CopiesIn(r, postbacks)
               => (r.token_ok <=> ExpectVerified(asked'))]_vars

\* With per-tenant secrets enabled, a tenant whose secret was accepted
\* before has just been sent the global secret, and the request was refused
\* and recorded as such.
C30_Witness ==
    /\ secret_mode = "enabled"
    /\ asked.token = global_postback_secret
    /\ last.code = "forbidden"
    /\ \E r, q \in BagToSet(postbacks) :
          /\ r.tenant_id = asked.tenant_id /\ r.token_ok
          /\ q.tenant_id = asked.tenant_id /\ ~q.token_ok


\* ------------------------------------ properties of the user's resolution

\* The primary keys of the rows of a users table.
IdsOf(X) == {u.id : u \in X}

\* C31: when a tenant requires a deposit and a verified registration or
\* deposit is recorded, the user of the event is one of the rows the
\* look-up by Telegram id, then click_id, then trader_id finds, and no row
\* is added; when the look-up finds none, exactly one row is added, at step
\* registered for a registration, and for a deposit at step deposited when
\* the user's verified deposits reach min_deposit and asked_deposit
\* otherwise.
C31_ResolveOrCreate ==
    [][\A r \in BagToSet(postbacks') :
          (/\ CopiesIn(r, postbacks') > CopiesIn(r, postbacks)
           /\ r.token_ok
           /\ r.event \in {"registration", "deposit"}
           /\ cfg'[r.tenant_id].require_deposit)
          => LET found == FoundUsers(r.tenant_id, r.click_id, r.trader_id)
                 c == cfg'[r.tenant_id]
             IN  IF found # {}
                 THEN r.uid \in IdsOf(found) /\ IdsOf(users') = IdsOf(users)
                 ELSE \E v \in users' :
                        /\ v.id = r.uid
                        /\ v.id \notin IdsOf(users)
                        /\ IdsOf(users') = IdsOf(users) \cup {v.id}
                        /\ v.tenant_id = r.tenant_id
                        /\ v.step = IF r.event = "registration"
                                    THEN "registered"
                                    ELSE IF UserTotal(postbacks', v.id)
                                               >= c.min_deposit
                                         THEN "deposited"
                                         ELSE "asked_deposit"]_vars


\* C32: a request to the endpoint that sends the "unlocked" screen sends it
\* to a user of the request's tenant whose step after the request is
\* deposited.
C32_UnlockedOnlyWithAccess ==
    [][(RequestStep /\ last'.screen = "unlocked")
       => \E v \in users' :
             /\ v.tenant_id = asked'.tenant_id
             /\ v.tg_user_id = last'.to
             /\ v.step = "deposited"]_vars


\* ------------------------------------------ properties of the tenants table

\* C33: no step takes a tenant whose status is deleted to any status but
\* deleted; the row may only go.
C33_DeletedIsTerminal ==
    [][\A t \in Tenants :
          status[t] = "deleted" => status'[t] \in {"deleted", "absent"}]_vars


\* ------------------------------------------- properties of the users table

\* C34: in every state a tenant has at most one row of users for a
\* Telegram user.
C34_UniqueUser ==
    \A u, v \in users :
        (/\ u.tenant_id = v.tenant_id
         /\ u.tg_user_id = v.tg_user_id
         /\ u.tg_user_id # NoTg)
        => u = v


\* ------------------------------------------ properties of the postback URL

\* C35: in every state, under the secret mode in force, the token of the
\* postback URLs on display for a tenant passes the token check of the
\* endpoint for that tenant.
C35_DisplayedUrlAccepted ==
    \A t \in Tenants :
        TenantExists(t) => TokenOk(t, PostbackUrlToken(t))


\* --------------------------------------- properties of the deduplication

\* A verified row of tenant 1 without click_id for this event, sum and
\* trader is in the ledger.
RecordedFor(B, event, sum_val, trader_id) ==
    \E r \in BagToSet(B) :
        /\ r.token_ok
        /\ r.tenant_id = 1
        /\ r.event = event
        /\ r.click_id = NULL
        /\ r.sum = sum_val
        /\ r.trader_id = trader_id

\* C36: a verified event without click_id whose trader has no recorded event
\* of that kind and amount is not answered as a duplicate: it is recorded,
\* whatever other traders have sent.
C36_NoMergeAcrossTraders ==
    [][\A raw_event \in RawEvents, trader_id \in SenderTraderIds :
          \A sum_str \in RequestSums(raw_event) :
              (/\ ~RecordedFor(postbacks, norm_event(raw_event),
                               SumVal(sum_str), trader_id)
               /\ HandlePostback(1, raw_event, postback_secret[1], NULL,
                                 trader_id, sum_str))
              => (/\ ~last'.dup
                  /\ RecordedFor(postbacks', norm_event(raw_event),
                                 SumVal(sum_str), trader_id))]_vars


\* ------------------------------------------ properties of the deposit total

\* C37: no step lowers the deposit total of the click_id "7" of tenant 1,
\* the total compared with min_deposit and with the VIP threshold.
C37_TotalNeverDecreases ==
    [][dep_total(postbacks', 1, "7") >= dep_total(postbacks, 1, "7")]_vars


\* ------------------------------------------ properties of the attachment

\* C38: the owner never has more than one tenant whose status is active or
\* paused.
C38_OneAttachedPerOwner ==
    Cardinality({t \in Tenants : status[t] \in {"active", "paused"}}) <= 1


\* ------------------------------------------------ properties of the gate

\* C39: a "get signal" press that reaches its handler although the gate
\* read a status other than active changes no row of users: with the
\* look-up succeeding and the tenant not active the handler does not run.
C39_GateHolds ==
    [][\A u \in users, answer_ok \in BOOLEAN :
          (/\ status[u.tenant_id] # "active"
           /\ GatedGet(u, TRUE, answer_ok))
          => users' = users]_vars

=============================================================================
